---- MODULE Spec2Model ----
(***************************************************************************)
(* m4b-splitter: the partition planner (plan_splits), the process          *)
(* orchestrator (run_ffmpeg_with_progress) and the split session           *)
(* (M4BSplitter.split) of src/src/m4b_splitter/splitter.py, with the       *)
(* validation of src/src/m4b_splitter/probe.py; the pure functions of      *)
(* splitter.py (sanitize_filename, the output file name,                   *)
(* parse_ffmpeg_progress, the overall progress value,                      *)
(* create_metadata_file); and the ProgressTracker of                       *)
(* src/src/m4b_splitter/progress.py.                                       *)
(***************************************************************************)
EXTENDS Integers, Sequences, FiniteSets, TLC

\* ------------------------------------------------------------------ bounds
MaxChapters == 3
MaxDur == 2
MaxGap == 1
MaxCeiling == 3
MaxParts == 2
SessionWrites == 1
MaxWrites == 2
PipeCap == 1

VARIABLES
  pc,                    \* position of the main control flow
  input_file,            \* what the probe collaborator finds in the source file
  max_duration_seconds,  \* the ceiling
  ipod_mode,             \* re-encode mode (FALSE: passthrough)
  sink_faulty,           \* whether the caller's progress sink may raise
  ffmpeg_lines,          \* how many lines the encoder writes at most in one run
  metadata,              \* "none" | "loaded"
  chapters,              \* the chapter list extract_chapters returned
  split_plan,            \* plan_splits' result
  part_num,              \* loop variable of the part loop
  parts,                 \* the local list of completed SplitPart
  output_dir,            \* "absent" | "created"
  temp_dir,              \* "none" | "exists" | "removed"
  temp_created,          \* how many temporary directories were created
  temp_files,            \* files inside the temporary directory
  files,                 \* output paths that exist
  proc,                  \* per part: the external encode process
  stdout_pipe,           \* per part: lines in the stdout pipe
  stderr_pipe,           \* per part: lines in the stderr pipe
  stderr_thread,         \* per part: position of the stderr reader thread
  stderr_lines,          \* per part: lines the stderr reader appended
  run_result,            \* per part: the verdict run_ffmpeg_with_progress returned
  result,                \* the SplitResult returned, or "none"
  validation,            \* "none", or what validate_m4b_file returned
  sink_raised,           \* whether the progress sink has raised
  call,                  \* a call of one of the pure functions: arguments and result
  callbacks,             \* ProgressTracker._callbacks
  delivered,             \* what the callbacks received during the last notification
  last_event             \* the latest call of the session's progress sink

vars == <<pc, input_file, max_duration_seconds, ipod_mode, sink_faulty, ffmpeg_lines,
          metadata,
          chapters, split_plan, part_num, parts, output_dir, temp_dir,
          temp_created, temp_files, files, proc, stdout_pipe, stderr_pipe,
          stderr_thread, stderr_lines, run_result, result, validation,
          sink_raised, call, callbacks, delivered, last_event>>

\* ------------------------------------------------------- models.py: Chapter
Chapter(id, start_time, end_time) ==
  [id |-> id, start_time |-> start_time, end_time |-> end_time]

duration(chapter) == chapter.end_time - chapter.start_time

\* probe.py extract_chapters: ids are 0..n-1 in file order; chapters are
\* ordered by start time (a gap may separate two chapters).
Extend(s, gap, dur) ==
  LET start == IF s = <<>> THEN gap ELSE s[Len(s)].end_time + gap
  IN  Append(s, Chapter(Len(s), start, start + dur))

RECURSIVE ChapterSeqsOfLen(_)
ChapterSeqsOfLen(n) ==
  IF n = 0 THEN {<<>>}
  ELSE {Extend(s, g, d) : s \in ChapterSeqsOfLen(n - 1), g \in 0..MaxGap, d \in 0..MaxDur}

ChapterSeqs == UNION {ChapterSeqsOfLen(n) : n \in 0..MaxChapters}

Ceilings == 1..MaxCeiling

\* -------------------------------------------------- splitter.py: plan_splits
\* line 279: the current group is closed before this chapter
ShouldClose_Geq(current_duration, chapter_duration, max, current_part) ==
  current_duration + chapter_duration >= max /\ current_part # <<>>

ShouldClose_NoAdd(current_duration, chapter_duration, max, current_part) ==
  current_duration > max /\ current_part # <<>>

ShouldClose(current_duration, chapter_duration, max, current_part) ==
  current_duration + chapter_duration > max /\ current_part # <<>>

\* lines 289-291: the last group is appended when it is not empty
FinishPlan_DropLast(plan, current_part) == plan

FinishPlan(plan, current_part) ==
  IF current_part # <<>> THEN Append(plan, current_part) ELSE plan

\* lines 275-287: the loop, from chapter i on
RECURSIVE PlanLoop(_, _, _, _, _, _)
PlanLoop(chs, max, i, plan, current_part, current_duration) ==
  IF i > Len(chs) THEN FinishPlan(plan, current_part)
  ELSE LET chapter_duration == duration(chs[i]) IN
       IF ShouldClose(current_duration, chapter_duration, max, current_part)
       THEN PlanLoop(chs, max, i + 1, Append(plan, current_part),
                     <<chs[i]>>, chapter_duration)
       ELSE PlanLoop(chs, max, i + 1, plan, Append(current_part, chs[i]),
                     current_duration + chapter_duration)

plan_splits(chs, max) ==
  IF chs = <<>> THEN <<>> ELSE PlanLoop(chs, max, 1, <<>>, <<>>, 0)

RECURSIVE Flatten(_)
Flatten(groups) ==
  IF groups = <<>> THEN <<>> ELSE Head(groups) \o Flatten(Tail(groups))

\* ------------------------------------------------------------------ floats
\* A Python float, kept exactly as a fraction in lowest terms with a positive
\* denominator (rounding is not modelled).
RECURSIVE Gcd(_, _)
Gcd(a, b) == IF b = 0 THEN a ELSE Gcd(b, a % b)

Abs(n) == IF n < 0 THEN -n ELSE n

Rat(num, den) ==
  LET g == Gcd(Abs(num), den)
  IN  [num |-> num \div g, den |-> den \div g]

RLeq(a, b) == a.num * b.den <= b.num * a.den
REq(a, b) == a.num * b.den = b.num * a.den
RMin(a, b) == IF RLeq(a, b) THEN a ELSE b
RAdd(a, b) == Rat(a.num * b.den + b.num * a.den, a.den * b.den)
RMul(a, b) == Rat(a.num * b.num, a.den * b.den)
RDiv(a, n) == Rat(a.num, a.den * n)

\* ------------------------------------ splitter.py: the overall progress value
\* lines 628-671, 747, 749: the fixed values of report_progress
StepPercent ==
  [validating |-> 0, metadata |-> 5, chapters |-> 10, planning |-> 15, cover |-> 18,
   finalizing |-> 98, complete |-> 100]

\* lines 679-682
base_progress == 20

progress_per_part(total_parts) == Rat(75, total_parts)

part_base_progress(part, total_parts) ==
  RAdd(Rat(base_progress, 1), RMul(Rat(part - 1, 1), progress_per_part(total_parts)))

\* lines 714-717: ffmpeg_progress_handler's overall value
overall_progress(part, total_parts, prog) ==
  LET part_progress == RMul(RDiv(prog.percent, 100), progress_per_part(total_parts))
  IN  RAdd(part_base_progress(part, total_parts), part_progress)

\* lines 615-619: what report_progress hands to the sink: the step text
\* (with the part number it names, 0 when it names none) and the overall
\* percent
Event(step, part, percent) == [step |-> step, part |-> part, percent |-> percent]

\* the sink has not been called yet
NoEvent == Event("none", 0, Rat(0, 1))

\* the part-local percent of the sample of a progress line: the lines are the
\* encoder's last status, which both channels carry at the end of the range
SamplePercents == {Rat(100, 1)}

\* lines 714-716: the overall value of every part and sample percent, computed
\* once
overall_values ==
  [part \in 1..MaxParts, total_parts \in 1..MaxParts, percent \in SamplePercents |->
     overall_progress(part, total_parts, [percent |-> percent])]

\* lines 714-717: ffmpeg_progress_handler reads part_num and
\* part_base_progress of split() when it is called, not when it was defined
EncodingEvent(part, total_parts, percent) ==
  Event("Encoding part", part, overall_values[part, total_parts, percent])

\* ------------------------------------------------ the planner on its own
Parts == 1..MaxParts

\* wrote: the lines the process has written to stderr, kept until the part is
\* appended to the result
NoProc == [st |-> "none", left |-> 0, next |-> "exit", returncode |-> 0, wrote |-> <<>>]
NoResult == [ok |-> FALSE, text |-> <<>>, set |-> FALSE]

\* no pure function is being called and no ProgressTracker exists
NoCall == [op |-> "none"]

Idle ==
  /\ call = NoCall
  /\ callbacks = <<>>
  /\ delivered = <<>>

unitVars == <<call, callbacks, delivered>>

\* everything a session has not touched yet
Fresh ==
  /\ metadata = "none"
  /\ split_plan = <<>>
  /\ part_num = 0
  /\ parts = <<>>
  /\ output_dir = "absent"
  /\ temp_dir = "none"
  /\ temp_created = 0
  /\ temp_files = {}
  /\ files = {}
  /\ proc = [k \in Parts |-> NoProc]
  /\ stdout_pipe = [k \in Parts |-> <<>>]
  /\ stderr_pipe = [k \in Parts |-> <<>>]
  /\ stderr_thread = [k \in Parts |-> "none"]
  /\ stderr_lines = [k \in Parts |-> <<>>]
  /\ run_result = [k \in Parts |-> NoResult]
  /\ result = "none"
  /\ validation = "none"
  /\ sink_raised = FALSE
  /\ last_event = NoEvent

InitPlan ==
  /\ pc = "plan_only"
  /\ chapters \in ChapterSeqs
  /\ max_duration_seconds \in Ceilings
  /\ input_file = [exists |-> TRUE, suffix_ok |-> TRUE, has_audio |-> TRUE,
                   chapters |-> chapters]
  /\ ipod_mode = FALSE
  /\ sink_faulty = FALSE
  /\ ffmpeg_lines = 0
  /\ Fresh
  /\ Idle

\* a call of plan_splits(chapters, max_duration_seconds)
PlanOnly ==
  /\ pc = "plan_only"
  /\ split_plan' = plan_splits(chapters, max_duration_seconds)
  /\ pc' = "planned_only"
  /\ UNCHANGED <<input_file, max_duration_seconds, ipod_mode, sink_faulty,
                 ffmpeg_lines, metadata, chapters, part_num, parts, output_dir, temp_dir, temp_created,
                 temp_files, files, proc, stdout_pipe, stderr_pipe, stderr_thread,
                 stderr_lines, run_result, result, validation, sink_raised, unitVars,
                 last_event>>

NextPlan == PlanOnly

SpecPlan == InitPlan /\ [][NextPlan]_vars

\* C1: for every chapter sequence and ceiling > 0 the groups plan_splits returns
\* are non-empty and their concatenation, in order, is exactly the input; the
\* empty input yields the empty list.
C1_Partition ==
  pc = "planned_only" =>
    /\ Flatten(split_plan) = chapters
    /\ \A g \in 1..Len(split_plan) : split_plan[g] # <<>>
    /\ (chapters = <<>> => split_plan = <<>>)

C1_Witness ==
  /\ pc = "planned_only"
  /\ Len(split_plan) = 2
  /\ Len(split_plan[1]) = 2
  /\ Len(chapters) = 3

\* C2: a chapter whose own duration exceeds the ceiling is the only chapter of
\* its group, whatever precedes or follows it.
C2_OversizeSingleton ==
  pc = "planned_only" =>
    \A g \in 1..Len(split_plan) : \A i \in 1..Len(split_plan[g]) :
      duration(split_plan[g][i]) > max_duration_seconds => Len(split_plan[g]) = 1

C2_Witness ==
  /\ pc = "planned_only"
  /\ Len(chapters) = 3
  /\ duration(chapters[1]) <= max_duration_seconds
  /\ duration(chapters[2]) > max_duration_seconds
  /\ duration(chapters[3]) <= max_duration_seconds
  /\ split_plan = << <<chapters[1]>>, <<chapters[2]>>, <<chapters[3]>> >>

RECURSIVE SumDurations(_)
SumDurations(group) ==
  IF group = <<>> THEN 0
  ELSE duration(Head(group)) + SumDurations(Tail(group))

\* C21: plan_splits returns the greedy grouping: a chapter joins the current
\* group exactly when the group's summed duration plus its own does not exceed
\* the ceiling (so a group of two or more chapters sums to at most the
\* ceiling), and every non-final group plus the first chapter of the next one
\* exceeds the ceiling; chapters of one equal duration d (0 < d <= ceiling)
\* are grouped ceiling \div d per part, the last part possibly shorter.
C21_Greedy ==
  pc = "planned_only" =>
    /\ \A g \in 1..Len(split_plan) : \A i \in 2..Len(split_plan[g]) :
         SumDurations(SubSeq(split_plan[g], 1, i)) <= max_duration_seconds
    /\ \A g \in 1..(Len(split_plan) - 1) :
         SumDurations(split_plan[g]) + duration(split_plan[g + 1][1])
           > max_duration_seconds
    /\ \A d \in 1..max_duration_seconds :
         (\A i \in 1..Len(chapters) : duration(chapters[i]) = d) =>
           \A g \in 1..Len(split_plan) :
             IF g < Len(split_plan)
             THEN Len(split_plan[g]) = max_duration_seconds \div d
             ELSE Len(split_plan[g]) <= max_duration_seconds \div d

C21_Witness ==
  /\ pc = "planned_only"
  /\ Len(chapters) = 3
  /\ \A i \in 1..3 : duration(chapters[i]) = 1
  /\ max_duration_seconds = 2
  /\ Len(split_plan) = 2
  /\ Len(split_plan[1]) = 2
  /\ Len(split_plan[2]) = 1

\* C29: the time range of a part of two or more chapters, from the start of
\* its first chapter to the end of its last one (the range handed to the
\* encoder), is no longer than the ceiling.
C29_DerivedDuration ==
  pc = "planned_only" =>
    \A g \in 1..Len(split_plan) :
      Len(split_plan[g]) >= 2 =>
        split_plan[g][Len(split_plan[g])].end_time - split_plan[g][1].start_time
          <= max_duration_seconds

\* ------------------------------------------------------ the split session
\* Session inputs: chapters of one time unit each without gaps, so that the
\* number of planned parts ranges over 1..MaxParts with the ceiling.
SessionChapterSeqs ==
  {s \in ChapterSeqs : /\ Len(s) <= MaxParts
                       /\ \A i \in 1..Len(s) : /\ duration(s[i]) = 1
                                                /\ s[i].start_time = i - 1}

SessionCeilings == {1, MaxParts}

InputFiles ==
  [exists : BOOLEAN, suffix_ok : BOOLEAN, has_audio : BOOLEAN,
   chapters : SessionChapterSeqs]

Init ==
  /\ pc = "validate"
  /\ input_file \in InputFiles
  /\ max_duration_seconds \in SessionCeilings
  /\ ipod_mode \in BOOLEAN
  /\ sink_faulty \in BOOLEAN
  /\ ffmpeg_lines = SessionWrites
  /\ chapters = <<>>
  /\ Fresh
  /\ Idle

\* what a call of the progress sink can do: return (TRUE) or raise (FALSE)
SinkOutcomes == IF sink_faulty THEN BOOLEAN ELSE {TRUE}

\* probe.py lines 188-221: validate_m4b_file's (is_valid, msg)
validate_m4b_file(f, probe_ok) ==
  IF ~f.exists THEN "File not found"
  ELSE IF ~f.suffix_ok THEN "Invalid file extension"
  ELSE IF ~probe_ok THEN "ffprobe failed"
  ELSE IF ~f.has_audio THEN "No audio stream found"
  ELSE IF f.chapters = <<>> THEN "No chapters found (required for splitting)"
  ELSE "valid"

\* line 631: if not is_valid
ValidationRaises_Never(v) == FALSE

ValidationRaises(v) == v # "valid"

\* line 647: the short circuit
ShortCircuit_IgnoreMode(total_parts, mode) == total_parts = 1

ShortCircuit(total_parts, mode) == total_parts = 1 /\ ~mode

\* line 667: the with block releases the temporary directory on every exit
ExitTemp_Leak(t) == t

ExitTemp(t) == IF t = "exists" THEN "removed" ELSE t

\* line 732: if not success
EncodeRaises_Never(r) == FALSE

EncodeRaises(r) == ~r.ok

\* lines 689-697: the output path of part k (the file name carries the part
\* number)
OutputFile(k) == k

\* line 735: if not output_file.exists()
OutputMissing_Never(k) == FALSE

OutputMissing(k) == OutputFile(k) \notin files

SplitPart(part_number, total_parts, chs, output_path) ==
  [part_number |-> part_number, total_parts |-> total_parts, chapters |-> chs,
   output_path |-> output_path]

Message(kind, part, detail) == [kind |-> kind, part |-> part, detail |-> detail]

\* lines 758-773: both handlers build a failed SplitResult; the with block is
\* left on the way, which removes the temporary directory
Failure(kind, part, detail) ==
  /\ result' = [success |-> FALSE, parts |-> <<>>,
                error_message |-> Message(kind, part, detail)]
  /\ pc' = "returned"
  /\ temp_dir' = ExitTemp(temp_dir)
  /\ temp_files' = IF ExitTemp(temp_dir) = "exists" THEN temp_files ELSE {}

\* the sink raised in the main flow of split(): except Exception, line 766
SinkRaisedInSplit ==
  /\ sink_raised' = TRUE
  /\ Failure("Unexpected error: ", 0, "sink")

inputVars == <<input_file, max_duration_seconds, ipod_mode, sink_faulty, ffmpeg_lines,
               unitVars>>
envVars == <<inputVars, last_event>>
runVars == <<proc, stdout_pipe, stderr_pipe, stderr_thread, stderr_lines, run_result>>

\* the main flow goes on inside split()
Continue(next) ==
  /\ pc' = next
  /\ UNCHANGED <<result, temp_dir, temp_files>>

\* lines 627-632: step 1
Validate ==
  /\ pc = "validate"
  /\ last_event' = Event("Validating input file", 0, Rat(StepPercent.validating, 1))
  /\ \E sink_ok \in SinkOutcomes, probe_ok \in BOOLEAN :
       IF ~sink_ok THEN SinkRaisedInSplit /\ UNCHANGED validation
       ELSE LET v == validate_m4b_file(input_file, probe_ok) IN
            /\ validation' = v
            /\ UNCHANGED sink_raised
            /\ IF ValidationRaises(v) THEN Failure("Invalid input file: ", 0, v)
               ELSE Continue("extract_metadata")
  /\ UNCHANGED <<inputVars, metadata, chapters, split_plan, part_num, parts, output_dir,
                 temp_created, files, runVars>>

\* lines 634-636: step 2; a ProbeError reaches except Exception (line 766)
ExtractMetadata ==
  /\ pc = "extract_metadata"
  /\ last_event' = Event("Extracting metadata", 0, Rat(StepPercent.metadata, 1))
  /\ \E sink_ok \in SinkOutcomes, probe_ok \in BOOLEAN :
       IF ~sink_ok THEN SinkRaisedInSplit /\ UNCHANGED metadata
       ELSE IF ~probe_ok
       THEN Failure("Unexpected error: ", 0, "ffprobe failed")
            /\ UNCHANGED <<metadata, sink_raised>>
       ELSE metadata' = "loaded" /\ Continue("extract_chapters") /\ UNCHANGED sink_raised
  /\ UNCHANGED <<inputVars, chapters, split_plan, part_num, parts, output_dir,
                 temp_created, files, runVars, validation>>

\* lines 638-640: step 3 (probe.py lines 66-86)
ExtractChapters ==
  /\ pc = "extract_chapters"
  /\ last_event' = Event("Extracting chapters", 0, Rat(StepPercent.chapters, 1))
  /\ \E sink_ok \in SinkOutcomes, probe_ok \in BOOLEAN :
       IF ~sink_ok THEN SinkRaisedInSplit /\ UNCHANGED chapters
       ELSE IF ~probe_ok
       THEN Failure("Unexpected error: ", 0, "ffprobe failed")
            /\ UNCHANGED <<chapters, sink_raised>>
       ELSE IF input_file.chapters = <<>>
       THEN Failure("Unexpected error: ", 0, "No chapters found in")
            /\ UNCHANGED <<chapters, sink_raised>>
       ELSE chapters' = input_file.chapters /\ Continue("plan") /\ UNCHANGED sink_raised
  /\ UNCHANGED <<inputVars, metadata, split_plan, part_num, parts, output_dir,
                 temp_created, files, runVars, validation>>

\* lines 642-661: step 4 and the short circuit
PlanSplits ==
  /\ pc = "plan"
  /\ last_event' = Event("Planning splits", 0, Rat(StepPercent.planning, 1))
  /\ \E sink_ok \in SinkOutcomes :
       IF ~sink_ok THEN SinkRaisedInSplit /\ UNCHANGED split_plan
       ELSE LET plan == plan_splits(chapters, max_duration_seconds) IN
            /\ split_plan' = plan
            /\ UNCHANGED sink_raised
            /\ IF ShortCircuit(Len(plan), ipod_mode)
               THEN /\ result' = [success |-> TRUE,
                                  parts |-> <<SplitPart(1, 1, chapters, "input_file")>>,
                                  error_message |-> Message("No split needed", 0, "")]
                    /\ pc' = "returned"
                    /\ UNCHANGED <<temp_dir, temp_files>>
               ELSE Continue("mkdir")
  /\ UNCHANGED <<inputVars, metadata, chapters, part_num, parts, output_dir,
                 temp_created, files, runVars, validation>>

\* line 664: output_dir.mkdir (an OSError reaches except Exception)
MakeOutputDir ==
  /\ pc = "mkdir"
  /\ \E os_ok \in BOOLEAN :
       IF os_ok THEN output_dir' = "created" /\ Continue("mktemp")
       ELSE Failure("Unexpected error: ", 0, "OSError") /\ UNCHANGED output_dir
  /\ UNCHANGED <<envVars, metadata, chapters, split_plan, part_num, parts,
                 temp_created, files, runVars, validation, sink_raised>>

\* line 667: with tempfile.TemporaryDirectory() as temp_dir
MakeTempDir ==
  /\ pc = "mktemp"
  /\ \E os_ok \in BOOLEAN :
       IF os_ok
       THEN /\ temp_dir' = "exists"
            /\ temp_created' = temp_created + 1
            /\ pc' = "cover"
            /\ UNCHANGED <<result, temp_files>>
       ELSE Failure("Unexpected error: ", 0, "OSError") /\ UNCHANGED temp_created
  /\ UNCHANGED <<envVars, metadata, chapters, split_plan, part_num, parts, output_dir,
                 files, runVars, validation, sink_raised>>

\* lines 670-680: step 5, best effort: the encoder is asked to write cover.jpg
\* into the temporary directory. Whether it succeeded (has_cover) only changes
\* the command line of the part encodes.
ExtractCover ==
  /\ pc = "cover"
  /\ last_event' = Event("Extracting cover art", 0, Rat(StepPercent.cover, 1))
  /\ \E sink_ok \in SinkOutcomes :
       IF ~sink_ok THEN SinkRaisedInSplit /\ UNCHANGED part_num
       ELSE /\ temp_files' = temp_files \cup {<<"cover.jpg", 0>>}
            /\ part_num' = 1
            /\ pc' = "part"
            /\ UNCHANGED <<result, temp_dir, sink_raised>>
  /\ UNCHANGED <<inputVars, metadata, chapters, split_plan, parts, output_dir,
                 temp_created, files, runVars, validation>>

\* lines 682-719: the head of the loop body for part part_num: the file name,
\* the sidecar file, the "Processing part" report
PreparePart ==
  /\ pc = "part"
  /\ \E os_ok \in BOOLEAN, sink_ok \in SinkOutcomes :
       IF ~os_ok
       THEN Failure("Unexpected error: ", 0, "OSError")
            /\ UNCHANGED <<sink_raised, last_event>>
       ELSE /\ last_event' = Event("Processing part", part_num,
                                   part_base_progress(part_num, Len(split_plan)))
            /\ IF ~sink_ok THEN SinkRaisedInSplit
               ELSE /\ temp_files' = temp_files \cup {<<"metadata_part", part_num>>}
                    /\ pc' = "popen"
                    /\ UNCHANGED <<result, temp_dir, sink_raised>>
  /\ UNCHANGED <<inputVars, metadata, chapters, split_plan, part_num, parts, output_dir,
                 temp_created, files, runVars, validation>>

\* -------------------------------------- splitter.py: run_ffmpeg_with_progress
StdoutKinds == {"out_time_ms", "other"}
StderrKinds == {"time", "diag"}

\* what the process does next: write a line to stdout or to stderr, or exit
NextTargets(left) == IF left > 0 THEN {"out", "err", "exit"} ELSE {"exit"}

Verdict(ok, text) == [ok |-> ok, text |-> text, set |-> TRUE]

\* line 435: stderr_lines is a local list of one invocation, read only by
\* line 470: once the invocation has returned nothing reads it any more, and
\* it is no longer kept
Release(lines, k, returned) ==
  IF returned THEN [lines EXCEPT ![k] = <<>>] ELSE lines

\* lines 426-433 (subprocess.Popen) and 474-475 (it raised)
Popen ==
  /\ pc = "popen"
  /\ \E os_ok \in BOOLEAN :
       IF os_ok
       THEN \E nxt \in NextTargets(ffmpeg_lines) :
              /\ proc' = [proc EXCEPT ![part_num] =
                            [st |-> "running", left |-> ffmpeg_lines, next |-> nxt,
                             returncode |-> 0, wrote |-> <<>>]]
              /\ pc' = "start_thread"
              /\ UNCHANGED run_result
       ELSE /\ run_result' = [run_result EXCEPT ![part_num] = Verdict(FALSE, <<"exception">>)]
            /\ pc' = "check"
            /\ UNCHANGED proc
  /\ UNCHANGED <<envVars, metadata, chapters, split_plan, part_num, parts, output_dir,
                 temp_dir, temp_created, temp_files, files, stdout_pipe, stderr_pipe,
                 stderr_thread, stderr_lines, result, validation, sink_raised>>

\* lines 446-448: the stderr reader is started as a thread of its own
StartStderrThread ==
  /\ pc = "start_thread"
  /\ stderr_thread' = [stderr_thread EXCEPT ![part_num] = "read"]
  /\ pc' = "read_stdout"
  /\ UNCHANGED <<envVars, metadata, chapters, split_plan, part_num, parts, output_dir,
                 temp_dir, temp_created, temp_files, files, proc, stdout_pipe,
                 stderr_pipe, stderr_lines, run_result, result, validation, sink_raised>>

\* lines 446-448: being a thread, the reader runs whatever the main flow does
StderrReaderScheduled_AfterStdout(k) ==
  ~(part_num = k /\ pc \in {"read_stdout", "cb_main"})

StderrReaderScheduled(k) == TRUE

\* lines 451-453: one iteration of "for line in process.stdout" in the main
\* flow; the loop ends at end of file, when the process has exited
ReadStdout ==
  /\ pc = "read_stdout"
  /\ IF stdout_pipe[part_num] # <<>>
     THEN /\ stdout_pipe' = [stdout_pipe EXCEPT ![part_num] = Tail(@)]
          /\ pc' = IF Head(stdout_pipe[part_num]) = "out_time_ms" THEN "cb_main"
                   ELSE "read_stdout"
     ELSE /\ proc[part_num].st = "exited"
          /\ pc' = "wait"
          /\ UNCHANGED stdout_pipe
  /\ UNCHANGED <<envVars, metadata, chapters, split_plan, part_num, parts, output_dir,
                 temp_dir, temp_created, temp_files, files, proc, stderr_pipe,
                 stderr_thread, stderr_lines, run_result, result, validation,
                 sink_raised>>

\* lines 454-464: the sample goes to the sink, inside the try of line 454: a
\* ValueError or IndexError of the sink is swallowed by line 463 and the loop
\* goes on; any other exception is caught by line 474 and becomes the verdict
MainCallback ==
  /\ pc = "cb_main"
  /\ \E percent \in SamplePercents :
       last_event' = EncodingEvent(part_num, Len(split_plan), percent)
  /\ \E sink_ok \in SinkOutcomes, swallowed \in BOOLEAN :
       IF sink_ok
       THEN pc' = "read_stdout" /\ UNCHANGED <<run_result, sink_raised, stderr_lines>>
       ELSE IF swallowed
       THEN /\ sink_raised' = TRUE
            /\ pc' = "read_stdout"
            /\ UNCHANGED <<run_result, stderr_lines>>
       ELSE /\ sink_raised' = TRUE
            /\ run_result' = [run_result EXCEPT ![part_num] = Verdict(FALSE, <<"exception">>)]
            /\ stderr_lines' = Release(stderr_lines, part_num, TRUE)
            /\ pc' = "check"
  /\ UNCHANGED <<inputVars, metadata, chapters, split_plan, part_num, parts, output_dir,
                 temp_dir, temp_created, temp_files, files, proc, stdout_pipe,
                 stderr_pipe, stderr_thread, result, validation>>

\* line 466: process.wait()
Wait ==
  /\ pc = "wait"
  /\ proc[part_num].st = "exited"
  /\ pc' = "join"
  /\ UNCHANGED <<envVars, metadata, chapters, split_plan, part_num, parts, output_dir,
                 temp_dir, temp_created, temp_files, files, runVars, result, validation,
                 sink_raised>>

\* lines 467-472: stderr_thread.join(timeout=5) and the verdict. Time is not
\* modelled: the join returns when the thread has finished, or at any moment
\* before that (the timeout).
Join ==
  /\ pc = "join"
  /\ run_result' = [run_result EXCEPT ![part_num] =
                      IF proc[part_num].returncode # 0
                      THEN Verdict(FALSE, stderr_lines[part_num])
                      ELSE Verdict(TRUE, <<>>)]
  /\ stderr_lines' = Release(stderr_lines, part_num, TRUE)
  /\ pc' = "check"
  /\ UNCHANGED <<envVars, metadata, chapters, split_plan, part_num, parts, output_dir,
                 temp_dir, temp_created, temp_files, files, proc, stdout_pipe,
                 stderr_pipe, stderr_thread, result, validation, sink_raised>>

\* the external process writes a line; a full pipe blocks it
ProcWrite(k) ==
  /\ proc[k].st = "running"
  /\ proc[k].next \in {"out", "err"}
  /\ \E nxt \in NextTargets(proc[k].left - 1) :
       IF proc[k].next = "out"
       THEN /\ Len(stdout_pipe[k]) < PipeCap
            /\ \E line \in StdoutKinds :
                 stdout_pipe' = [stdout_pipe EXCEPT ![k] = Append(@, line)]
            /\ proc' = [proc EXCEPT ![k].left = @ - 1, ![k].next = nxt]
            /\ UNCHANGED stderr_pipe
       ELSE /\ Len(stderr_pipe[k]) < PipeCap
            /\ \E line \in StderrKinds :
                 /\ stderr_pipe' = [stderr_pipe EXCEPT ![k] = Append(@, line)]
                 /\ proc' = [proc EXCEPT ![k].left = @ - 1, ![k].next = nxt,
                                         ![k].wrote = Append(@, line)]
            /\ UNCHANGED stdout_pipe
  /\ UNCHANGED <<pc, envVars, metadata, chapters, split_plan, part_num, parts,
                 output_dir, temp_dir, temp_created, temp_files, files, stderr_thread,
                 stderr_lines, run_result, result, validation, sink_raised>>

\* the external process exits (closing both pipes), with or without having
\* produced its output file
ProcExit(k) ==
  /\ proc[k].st = "running"
  /\ proc[k].next = "exit"
  /\ \E rc \in {0, 1}, created \in BOOLEAN :
       /\ proc' = [proc EXCEPT ![k].st = "exited", ![k].left = 0, ![k].next = "exit",
                               ![k].returncode = rc]
       /\ files' = IF created THEN files \cup {OutputFile(k)} ELSE files
  /\ UNCHANGED <<pc, envVars, metadata, chapters, split_plan, part_num, parts,
                 output_dir, temp_dir, temp_created, temp_files, stdout_pipe,
                 stderr_pipe, stderr_thread, stderr_lines, run_result, result,
                 validation, sink_raised>>

\* lines 437-443: one iteration of "for line in process.stderr" in the thread
StderrRead(k) ==
  /\ stderr_thread[k] = "read"
  /\ StderrReaderScheduled(k)
  /\ IF stderr_pipe[k] # <<>>
     THEN /\ stderr_pipe' = [stderr_pipe EXCEPT ![k] = Tail(@)]
          /\ stderr_lines' =
               Release([stderr_lines EXCEPT ![k] = Append(@, Head(stderr_pipe[k]))],
                       k, run_result[k].set)
          /\ stderr_thread' = [stderr_thread EXCEPT ![k] =
                                 IF Head(stderr_pipe[k]) = "time" THEN "cb" ELSE "read"]
     ELSE /\ proc[k].st = "exited"
          /\ stderr_thread' = [stderr_thread EXCEPT ![k] = "done"]
          /\ UNCHANGED <<stderr_pipe, stderr_lines>>
  /\ UNCHANGED <<pc, envVars, metadata, chapters, split_plan, part_num, parts,
                 output_dir, temp_dir, temp_created, temp_files, files, proc,
                 stdout_pipe, run_result, result, validation, sink_raised>>

\* line 444: the sample goes to the sink, in the thread; what the sink raises
\* ends the thread
StderrCallback(k) ==
  /\ stderr_thread[k] = "cb"
  /\ \E percent \in SamplePercents :
       last_event' = EncodingEvent(part_num, Len(split_plan), percent)
  /\ \E sink_ok \in SinkOutcomes :
       IF sink_ok
       THEN /\ stderr_thread' = [stderr_thread EXCEPT ![k] = "read"]
            /\ UNCHANGED sink_raised
       ELSE /\ stderr_thread' = [stderr_thread EXCEPT ![k] = "dead"]
            /\ sink_raised' = TRUE
  /\ UNCHANGED <<pc, inputVars, metadata, chapters, split_plan, part_num, parts,
                 output_dir, temp_dir, temp_created, temp_files, files, proc,
                 stdout_pipe, stderr_pipe, stderr_lines, run_result, result,
                 validation>>

\* line 682: the chapters of the part_num-th group of the plan
part_chapters_First(plan, k) == plan[1]

part_chapters(plan, k) == plan[k]

\* ------------------------------------------- split(): the rest of the loop
\* lines 732-745: the verdict is checked, the output file looked for, the part
\* appended; then the next part, or the end of the loop
CheckResult ==
  /\ pc = "check"
  /\ IF EncodeRaises(run_result[part_num])
     THEN Failure("Failed to create part ", part_num, run_result[part_num].text)
          /\ UNCHANGED <<parts, part_num>>
     ELSE IF OutputMissing(part_num)
     THEN Failure("Output file was not created: ", part_num, "")
          /\ UNCHANGED <<parts, part_num>>
     ELSE /\ parts' = Append(parts, SplitPart(part_num, Len(split_plan),
                                              part_chapters(split_plan, part_num),
                                              OutputFile(part_num)))
          /\ IF part_num < Len(split_plan)
             THEN part_num' = part_num + 1 /\ pc' = "part"
             ELSE part_num' = part_num /\ pc' = "finalize"
          /\ UNCHANGED <<result, temp_dir, temp_files>>
  /\ proc' = IF pc' = "returned" THEN proc ELSE [proc EXCEPT ![part_num].wrote = <<>>]
  /\ UNCHANGED <<envVars, metadata, chapters, split_plan, output_dir, temp_created,
                 files, stdout_pipe, stderr_pipe, stderr_thread, stderr_lines, run_result,
                 validation, sink_raised>>

\* line 747, and the end of the with block
Finalize ==
  /\ pc = "finalize"
  /\ last_event' = Event("Finalizing", 0, Rat(StepPercent.finalizing, 1))
  /\ \E sink_ok \in SinkOutcomes :
       IF ~sink_ok THEN SinkRaisedInSplit
       ELSE /\ temp_dir' = ExitTemp(temp_dir)
            /\ temp_files' = IF ExitTemp(temp_dir) = "exists" THEN temp_files ELSE {}
            /\ pc' = "complete"
            /\ UNCHANGED <<result, sink_raised>>
  /\ UNCHANGED <<inputVars, metadata, chapters, split_plan, part_num, parts, output_dir,
                 temp_created, files, runVars, validation>>

\* lines 749-756
Complete ==
  /\ pc = "complete"
  /\ last_event' = Event("Complete", 0, Rat(StepPercent.complete, 1))
  /\ \E sink_ok \in SinkOutcomes :
       IF ~sink_ok THEN SinkRaisedInSplit
       ELSE /\ result' = [success |-> TRUE, parts |-> parts,
                          error_message |-> Message("", 0, "")]
            /\ pc' = "returned"
            /\ UNCHANGED <<temp_dir, temp_files, sink_raised>>
  /\ UNCHANGED <<inputVars, metadata, chapters, split_plan, part_num, parts, output_dir,
                 temp_created, files, runVars, validation>>

Next ==
  \/ Validate
  \/ ExtractMetadata
  \/ ExtractChapters
  \/ PlanSplits
  \/ MakeOutputDir
  \/ MakeTempDir
  \/ ExtractCover
  \/ PreparePart
  \/ Popen
  \/ StartStderrThread
  \/ ReadStdout
  \/ MainCallback
  \/ Wait
  \/ Join
  \/ CheckResult
  \/ Finalize
  \/ Complete
  \/ \E k \in Parts : ProcWrite(k)
  \/ \E k \in Parts : ProcExit(k)
  \/ \E k \in Parts : StderrRead(k)
  \/ \E k \in Parts : StderrCallback(k)

Spec == Init /\ [][Next]_vars

\* the operating system schedules every thread and process that can run
FairSpec == Spec /\ WF_vars(Next)

\* --------------------------------------- one invocation of the orchestrator
\* The state of a one-part re-encode session at its call of
\* run_ffmpeg_with_progress.
OneChapter == <<Chapter(0, 0, 1)>>

InitRun ==
  /\ pc = "popen"
  /\ input_file = [exists |-> TRUE, suffix_ok |-> TRUE, has_audio |-> TRUE,
                   chapters |-> OneChapter]
  /\ max_duration_seconds \in Ceilings
  /\ ipod_mode = TRUE
  /\ sink_faulty \in BOOLEAN
  /\ ffmpeg_lines = MaxWrites
  /\ metadata = "loaded"
  /\ chapters = OneChapter
  /\ split_plan = plan_splits(OneChapter, max_duration_seconds)
  /\ part_num = 1
  /\ parts = <<>>
  /\ output_dir = "created"
  /\ temp_dir = "exists"
  /\ temp_created = 1
  /\ temp_files = {<<"cover.jpg", 0>>, <<"metadata_part", 1>>}
  /\ files = {}
  /\ proc = [k \in Parts |-> NoProc]
  /\ stdout_pipe = [k \in Parts |-> <<>>]
  /\ stderr_pipe = [k \in Parts |-> <<>>]
  /\ stderr_thread = [k \in Parts |-> "none"]
  /\ stderr_lines = [k \in Parts |-> <<>>]
  /\ run_result = [k \in Parts |-> NoResult]
  /\ result = "none"
  /\ validation = "valid"
  /\ sink_raised = FALSE
  /\ last_event = Event("Processing part", 1, part_base_progress(1, 1))
  /\ Idle

NextRun ==
  \/ Popen
  \/ StartStderrThread
  \/ ReadStdout
  \/ MainCallback
  \/ Wait
  \/ Join
  \/ ProcWrite(1)
  \/ ProcExit(1)
  \/ StderrRead(1)
  \/ StderrCallback(1)

SpecRun == InitRun /\ [][NextRun]_vars

FairSpecRun == SpecRun /\ WF_vars(NextRun)

\* C5: with a sink that returns, an invocation whose process only has to
\* finish its writes to exit always returns a verdict: no interleaving of the
\* writes onto the two bounded pipes blocks the process for ever.
C5_NoDeadlock == (~sink_faulty) ~> (pc = "check")

\* the hazard: the process is blocked on the full stderr pipe while the main
\* flow waits for stdout
C5_Witness ==
  /\ ~sink_faulty
  /\ pc = "read_stdout"
  /\ stdout_pipe[1] = <<>>
  /\ proc[1].st = "running"
  /\ proc[1].next = "err"
  /\ Len(stderr_pipe[1]) = PipeCap

\* C6: when the verdict is returned the process has exited, no drain worker
\* is still running and nothing of the primary channel is left unread.
C6_VerdictAfterDrain ==
  (pc = "check" /\ proc[1].st # "none") =>
    /\ proc[1].st = "exited"
    /\ stderr_thread[1] \notin {"read", "cb"}
    /\ stderr_pipe[1] = <<>>

\* C25: when the sink has raised on a sample of either channel, the verdict of
\* the invocation is returned only after the process has exited and both of
\* its channels have been read to their end, and the process is never left
\* blocked on a channel that no worker reads any more.
C25_SinkFailureDrains ==
  (sink_raised /\ proc[1].st # "none") =>
    /\ pc = "check" =>
         /\ proc[1].st = "exited"
         /\ stdout_pipe[1] = <<>>
         /\ stderr_pipe[1] = <<>>
    /\ ~(/\ stderr_thread[1] = "dead"
         /\ proc[1].st = "running"
         /\ proc[1].next = "err"
         /\ Len(stderr_pipe[1]) = PipeCap)

\* C26: the sink is executed by one thread at a time: while the main flow is
\* in the sink with an out_time_ms sample no stderr reader is in it with a
\* status-line sample, and no two stderr readers are in it together.
C26_SinkExclusive ==
  /\ pc = "cb_main" => \A k \in Parts : stderr_thread[k] # "cb"
  /\ \A j, k \in Parts : (stderr_thread[j] = "cb" /\ stderr_thread[k] = "cb") => j = k

\* ------------------------------------------------------ session properties
Launched(k) == proc[k].st # "none"

FailedResult(kind, part, detail) ==
  [success |-> FALSE, parts |-> <<>>, error_message |-> Message(kind, part, detail)]

\* C3: if the encode of part k fails (a failed verdict, or no output file),
\* no encode is launched for a later part, split() returns failure with that
\* first failure as its message, and the output files of parts 1..k-1 are
\* still there.
C3_EncodeFailureFatal ==
  \A k \in Parts :
    /\ (run_result[k].set /\ ~run_result[k].ok) =>
         /\ \A j \in Parts : j > k => ~Launched(j)
         /\ pc \in {"check", "returned"}
         /\ pc = "returned" =>
              /\ result = FailedResult("Failed to create part ", k, run_result[k].text)
              /\ \A j \in 1..(k - 1) : OutputFile(j) \in files
    /\ (run_result[k].set /\ run_result[k].ok /\ OutputFile(k) \notin files) =>
         /\ \A j \in Parts : j > k => ~Launched(j)
         /\ pc \in {"check", "returned"}
         /\ pc = "returned" =>
              /\ result = FailedResult("Output file was not created: ", k, "")
              /\ \A j \in 1..(k - 1) : OutputFile(j) \in files

C3_Witness ==
  /\ pc = "returned"
  /\ run_result[2].set
  /\ ~run_result[2].ok
  /\ run_result[2].text # <<>>
  /\ OutputFile(1) \in files
  /\ ~result.success

C7_Sequential ==
  /\ Cardinality({k \in Parts : proc[k].st = "running"}) <= 1
  /\ \A k \in Parts :
       (k > 1 /\ Launched(k)) =>
         /\ proc[k - 1].st = "exited"
         /\ run_result[k - 1] = Verdict(TRUE, <<>>)
         /\ OutputFile(k - 1) \in files
         /\ Len(parts) >= k - 1
         /\ parts[k - 1].part_number = k - 1

C7_Witness ==
  /\ proc[1].st = "exited"
  /\ proc[2].st = "running"
  /\ stderr_thread[1] = "cb"

\* C8: a session creates at most one temporary directory, every temporary
\* file lives in it, and it no longer exists when split() returns.
C8_TempReleased ==
  /\ temp_created <= 1
  /\ (temp_files # {} => temp_dir = "exists")
  /\ (pc = "returned" => temp_dir # "exists")

C8_Witness ==
  /\ pc = "returned"
  /\ temp_dir = "removed"
  /\ part_num = 2
  /\ result.error_message.kind = "Unexpected error: "

\* C9: a failed validation returns failure with the validation reason, and
\* nothing after validation happens; an input that is missing, has a wrong
\* extension, no audio stream or no chapters never passes validation.
C9_ValidationFailure ==
  /\ validation = "valid" =>
       /\ input_file.exists
       /\ input_file.suffix_ok
       /\ input_file.has_audio
       /\ input_file.chapters # <<>>
  /\ validation \notin {"none", "valid"} =>
       /\ pc = "returned"
       /\ result = FailedResult("Invalid input file: ", 0, validation)
       /\ metadata = "none"
       /\ chapters = <<>>
       /\ split_plan = <<>>
       /\ output_dir = "absent"
       /\ temp_created = 0
       /\ \A k \in Parts : ~Launched(k)

C9_Witness ==
  /\ pc = "returned"
  /\ validation = "No chapters found (required for splitting)"

\* C10: split() returns a structured result that is a success with parts, a
\* success with the "no split needed" message or a failure with a message, and
\* whenever a step raised something unexpected (the progress sink included)
\* the result is a failure with the prefix "Unexpected error: ".
C10_StructuredResult ==
  pc = "returned" =>
    /\ \/ result.success /\ result.error_message.kind \in {"", "No split needed"}
       \/ ~result.success /\ result.error_message.kind # ""
    /\ sink_raised =>
         /\ ~result.success
         /\ result.error_message.kind = "Unexpected error: "

\* the order of the steps: event b may directly follow event a at the sink
Follows(a, b) ==
  \/ <<a.step, b.step>> \in
       {<<"none", "Validating input file">>,
        <<"Validating input file", "Extracting metadata">>,
        <<"Extracting metadata", "Extracting chapters">>,
        <<"Extracting chapters", "Planning splits">>,
        <<"Planning splits", "Extracting cover art">>,
        <<"Finalizing", "Complete">>}
  \/ a.step = "Extracting cover art" /\ b.step = "Processing part" /\ b.part = 1
  \/ /\ a.step \in {"Processing part", "Encoding part"}
     /\ \/ b.step = "Encoding part" /\ b.part = a.part
        \/ b.step = "Processing part" /\ b.part = a.part + 1
        \/ b.step = "Finalizing" /\ a.part = Len(split_plan)

\* C22: the events reach the sink in the order Validating, Extracting
\* metadata, Extracting chapters, Planning splits, Extracting cover art, then
\* for each part k its Processing event followed by Encoding events of k only,
\* then Finalizing, then Complete (a session that ends early delivers a
\* prefix): every event delivered is one that may follow the event before it.
C22_EventOrder ==
  [][last_event' # last_event => Follows(last_event, last_event')]_vars

\* C27: the overall percent handed to the sink never decreases from one
\* event to the next.
C27_Monotone ==
  [][RLeq(last_event.percent, last_event'.percent)]_vars

\* ------------------------------------------------------------------ strings
\* A Python str, kept as its sequence of runs: [c |-> a character, n |-> how
\* often it is repeated], no run empty and no two neighbours of one character,
\* so that two strings are equal exactly when their run sequences are.
Run(c, n) == [c |-> c, n |-> n]

RECURSIVE Canon(_)
Canon(s) ==
  IF s = <<>> THEN <<>>
  ELSE LET h == Head(s)
           rest == Canon(Tail(s))
       IN  IF h.n = 0 THEN rest
           ELSE IF rest # <<>> /\ rest[1].c = h.c
                THEN <<Run(h.c, h.n + rest[1].n)>> \o Tail(rest)
                ELSE <<h>> \o rest

\* the string of the given characters
Str(chars) == Canon([i \in 1..Len(chars) |-> Run(chars[i], 1)])

\* a + b
Concat(a, b) == Canon(a \o b)

\* len(s)
RECURSIVE StrLen(_)
StrLen(s) == IF s = <<>> THEN 0 ELSE Head(s).n + StrLen(Tail(s))

\* s[:k]
RECURSIVE Prefix(_, _)
Prefix(s, k) ==
  IF s = <<>> \/ k <= 0 THEN <<>>
  ELSE IF Head(s).n >= k THEN <<Run(Head(s).c, k)>>
       ELSE <<Head(s)>> \o Prefix(Tail(s), k - Head(s).n)

Reverse(s) == [i \in 1..Len(s) |-> s[Len(s) + 1 - i]]

\* s.lstrip(chars), s.strip(chars)
RECURSIVE lstrip(_, _)
lstrip(s, chars) ==
  IF s # <<>> /\ Head(s).c \in chars THEN lstrip(Tail(s), chars) ELSE s

strip(s, chars) == Reverse(lstrip(Reverse(lstrip(s, chars)), chars))

\* s.endswith(suffix)
endswith(s, suffix) ==
  /\ StrLen(s) >= StrLen(suffix)
  /\ Reverse(Prefix(Reverse(s), StrLen(suffix))) = suffix

\* re.sub of a character class by one character
re_sub(class, repl, s) ==
  Canon([i \in 1..Len(s) |-> IF s[i].c \in class THEN Run(repl, s[i].n) ELSE s[i]])

\* the characters a string contains
CharsOf(s) == {s[i].c : i \in 1..Len(s)}

\* -------------------------------------------- splitter.py: sanitize_filename
\* the character class [<>:"/\\|?*] of line 245
IllegalChars == {"<", ">", ":", "\"", "/", "\\", "|", "?", "*"}

\* the argument of strip on line 247
StripChars == {".", " "}

\* the length limit of lines 249-250
NameLimit == 200

untitled == Str(<<"u", "n", "t", "i", "t", "l", "e", "d">>)

sanitize_filename(name) ==
  LET replaced == re_sub(IllegalChars, "_", name)
      stripped == strip(replaced, StripChars)
      limited == IF StrLen(stripped) > NameLimit THEN Prefix(stripped, NameLimit)
                 ELSE stripped
  IN  IF limited = <<>> THEN untitled ELSE limited

\* ------------------------------------------------ calls of the pure functions
\* The strings the calls are made with: at most MaxRuns runs of the characters
\* below, each run of one character, or as long as the limit, or one shorter.
MaxRuns == 3

NameChars == {"a", "/", ".", " ", "\t"}

RunLengths == {1, NameLimit - 1, NameLimit}

Names ==
  LET runs == {Run(c, n) : c \in NameChars, n \in RunLengths}
  IN  {s \in UNION {[1..n -> runs] : n \in 0..MaxRuns} : Canon(s) = s}

SanitizeCalls == {[op |-> "sanitize_filename", name |-> x] : x \in Names}

\* a call of sanitize_filename(name)
SanitizeCall ==
  /\ pc = "call"
  /\ call.op = "sanitize_filename"
  /\ call' = [op |-> call.op, name |-> call.name, result |-> sanitize_filename(call.name)]
  /\ pc' = "called"
  /\ UNCHANGED <<input_file, max_duration_seconds, ipod_mode, sink_faulty, ffmpeg_lines,
                 metadata, chapters, split_plan, part_num, parts, output_dir, temp_dir,
                 temp_created, temp_files, files, runVars, result, validation,
                 sink_raised, callbacks, delivered, last_event>>

Called(op) == pc = "called" /\ call.op = op

\* the characters Python's str.strip() takes for whitespace, as far as the
\* calls use them
Whitespace == {" ", "\t"}

\* C11: sanitize_filename is idempotent: applying it to its own result returns
\* that result, for every input, also one longer than the limit of 200.
C11_Idempotent ==
  Called("sanitize_filename") => sanitize_filename(call.result) = call.result

\* C12: sanitize_filename returns "untitled" for the empty string and for every
\* string of whitespace and "." only, and never returns the empty string.
C12_Untitled ==
  Called("sanitize_filename") =>
    /\ (CharsOf(call.name) \subseteq Whitespace \cup {"."}) => call.result = untitled
    /\ call.result # <<>>

\* ------------------------------- splitter.py lines 685-697: the output file
\* str(n) of a non-negative integer
Digits == <<"0", "1", "2", "3", "4", "5", "6", "7", "8", "9">>

RECURSIVE str_int(_)
str_int(n) ==
  IF n < 10 THEN Str(<<Digits[n + 1]>>)
  ELSE Concat(str_int(n \div 10), Str(<<Digits[(n % 10) + 1]>>))

\* A naming pattern is a sequence of pieces: literal text, or one of the
\* replacement fields {title}, {part}, {total}, {artist}.
Lit(text) == [field |-> "", text |-> text]
Field(name) == [field |-> name, text |-> <<>>]

\* output_pattern.format(title=, part=, total=, artist=)
RECURSIVE format(_, _, _, _, _)
format(pattern, title, part, total, artist) ==
  IF pattern = <<>> THEN <<>>
  ELSE LET piece == Head(pattern)
           text == CASE piece.field = "title" -> title
                     [] piece.field = "part" -> str_int(part)
                     [] piece.field = "total" -> str_int(total)
                     [] piece.field = "artist" -> artist
                     [] OTHER -> piece.text
       IN  Concat(text, format(Tail(pattern), title, part, total, artist))

m4b == Str(<<".", "m", "4", "b">>)
Unknown == Str(<<"U", "n", "k", "n", "o", "w", "n">>)

\* x or y, of two str (None and "" are both false)
Or(x, y) == IF x = <<>> THEN y ELSE x

\* lines 686-695: the file name of part part_num
output_filename_Unsanitized(pattern, meta_title, stem, meta_artist, part, total) ==
  LET title == sanitize_filename(Or(meta_title, stem))
      artist == sanitize_filename(Or(meta_artist, Unknown))
      filename == format(pattern, title, part, total, artist)
  IN  IF ~endswith(filename, m4b) THEN Concat(filename, m4b) ELSE filename

output_filename(pattern, meta_title, stem, meta_artist, part, total) ==
  LET title == sanitize_filename(Or(meta_title, stem))
      artist == sanitize_filename(Or(meta_artist, Unknown))
      filename == sanitize_filename(format(pattern, title, part, total, artist))
  IN  IF ~endswith(filename, m4b) THEN Concat(filename, m4b) ELSE filename

\* pathlib: the components of a relative or absolute path text (empty
\* components vanish)
RECURSIVE PathParts(_, _)
PathParts(text, current) ==
  IF text = <<>> THEN (IF current = <<>> THEN <<>> ELSE <<current>>)
  ELSE IF Head(text).c = "/"
       THEN (IF current = <<>> THEN <<>> ELSE <<current>>) \o PathParts(Tail(text), <<>>)
       ELSE PathParts(Tail(text), Concat(current, <<Head(text)>>))

\* line 697: output_dir / filename (an absolute right operand replaces the left)
PathJoin(dir, filename) ==
  IF filename # <<>> /\ Head(filename).c = "/" THEN PathParts(filename, <<>>)
  ELSE <<dir>> \o PathParts(filename, <<>>)

\* The patterns, titles and artists the calls are made with.
MaxPieces == 2

DefaultPattern ==
  <<Field("title"), Lit(Str(<<" ", "-", " ", "P", "a", "r", "t", " ">>)), Field("part"),
    Lit(Str(<<" ", "o", "f", " ">>)), Field("total"), Lit(m4b)>>

Pieces ==
  {Field(f) : f \in {"title", "part", "total", "artist"}}
    \cup {Lit(t) : t \in {Str(<<"/">>), m4b, Str(<<".", ".", "/">>)}}

Patterns == UNION {[1..n -> Pieces] : n \in 0..MaxPieces} \cup {DefaultPattern}

Titles == {x \in Names : Len(x) <= 1 /\ \A i \in 1..Len(x) : x[i].n \in {1, NameLimit}}

Artists == {<<>>, Str(<<"/", "a">>)}

PartsOfTotal == {kn \in (1..MaxParts) \X (1..MaxParts) : kn[1] <= kn[2]}

OutputFileCalls ==
  {[op |-> "output_file", output_pattern |-> p, title |-> t, stem |-> Str(<<"a">>),
    artist |-> a, part_num |-> kn[1], total_parts |-> kn[2]] :
     p \in Patterns, t \in Titles, a \in Artists, kn \in PartsOfTotal}

\* lines 685-697 for one part
OutputFileCall ==
  /\ pc = "call"
  /\ call.op = "output_file"
  /\ LET filename == output_filename(call.output_pattern, call.title, call.stem,
                                     call.artist, call.part_num, call.total_parts)
     IN  call' = [call EXCEPT !.op = "output_file"] @@
                 [filename |-> filename, output_file |-> PathJoin("output_dir", filename)]
  /\ pc' = "called"
  /\ UNCHANGED <<input_file, max_duration_seconds, ipod_mode, sink_faulty, ffmpeg_lines,
                 metadata, chapters, split_plan, part_num, parts, output_dir, temp_dir,
                 temp_created, temp_files, files, runVars, result, validation,
                 sink_raised, callbacks, delivered, last_event>>

\* C13: the output file name of every part is the pattern with the sanitized
\* title and artist, the part number and the total substituted, sanitized as a
\* whole, with ".m4b" appended unless it already ends with it; so the name ends
\* with ".m4b", contains no path separator, and the output path is a file
\* directly inside the output directory.
C13_OutputName ==
  Called("output_file") =>
    LET substituted ==
          format(call.output_pattern, sanitize_filename(Or(call.title, call.stem)),
                 call.part_num, call.total_parts,
                 sanitize_filename(Or(call.artist, Unknown)))
        clean == sanitize_filename(substituted)
    IN  /\ call.filename \in {clean, Concat(clean, m4b)}
        /\ (call.filename = clean) <=> endswith(clean, m4b)
        /\ endswith(call.filename, m4b)
        /\ CharsOf(call.filename) \cap {"/", "\\"} = {}
        /\ call.output_file = <<"output_dir", call.filename>>

\* a pattern with a path separator and a title at the length limit: the name
\* was cut at the limit before ".m4b" was appended
C13_Witness ==
  /\ Called("output_file")
  /\ \E i \in 1..Len(call.output_pattern) : "/" \in CharsOf(call.output_pattern[i].text)
  /\ StrLen(call.filename) = NameLimit + StrLen(m4b)

\* ---------------------------------------- splitter.py: parse_ffmpeg_progress
\* Times are counted in half seconds.
PerSecond == 2

\* FFmpegProgress() and None
FFmpegProgress ==
  [time_seconds |-> 0, percent |-> Rat(0, 1), size_kb |-> 0, bitrate_kbps |-> 0,
   speed |-> 0]
None == [none |-> TRUE]

\* lines 199-200 and 458-461: percent of total_duration, at most 100
Percent_Unclamped(time_seconds, total_duration) ==
  IF total_duration > 0 THEN Rat(time_seconds * 100, total_duration)
  ELSE FFmpegProgress.percent

Percent(time_seconds, total_duration) ==
  IF total_duration > 0
  THEN RMin(Rat(100, 1), Rat(time_seconds * 100, total_duration))
  ELSE FFmpegProgress.percent

\* A stderr line, by what the function looks for in it: whether "time=" occurs,
\* whether time=(\d+):(\d+):(\d+\.?\d*) matches (it does not for time=N/A) and
\* with which groups, and whether the size, bitrate and speed fields match.
StatusLine(has_time, hms, stats) == [has_time |-> has_time, hms |-> hms, stats |-> stats]

parse_ffmpeg_progress(line, total_duration) ==
  IF ~line.has_time THEN None
  ELSE LET time_seconds ==
             IF line.hms # <<>>
             THEN line.hms[1] * 3600 * PerSecond + line.hms[2] * 60 * PerSecond
                    + line.hms[3]
             ELSE FFmpegProgress.time_seconds
           percent ==
             IF line.hms # <<>> THEN Percent(time_seconds, total_duration)
             ELSE FFmpegProgress.percent
           found(i) == IF line.stats # <<>> THEN line.stats[i] ELSE 0
       IN  [time_seconds |-> time_seconds, percent |-> percent, size_kb |-> found(1),
            bitrate_kbps |-> found(2), speed |-> found(3)]

\* The lines and totals the calls are made with.
MaxHours == 1
MaxMinutes == 1

Hms ==
  {<<>>} \cup {<<h, m, s>> : h \in 0..MaxHours, m \in (0..MaxMinutes) \cup {61},
                              s \in {0, 1, 61}}

StatusLines ==
  {StatusLine(t, hms, st) : t \in BOOLEAN, hms \in Hms, st \in {<<>>, <<512, 128, 2>>}}

\* the part's duration in half seconds; a broken chapter table can make it
\* zero or negative
TotalDurations == {-2, 0, 2, 61, 360}

ParseCalls ==
  {[op |-> "parse_ffmpeg_progress", line |-> l, total_duration |-> d] :
     l \in {x \in StatusLines : x.has_time \/ x.hms = <<>>}, d \in TotalDurations}

\* a call of parse_ffmpeg_progress(line, total_duration)
ParseCall ==
  /\ pc = "call"
  /\ call.op = "parse_ffmpeg_progress"
  /\ call' = [op |-> call.op, line |-> call.line, total_duration |-> call.total_duration,
              result |-> parse_ffmpeg_progress(call.line, call.total_duration)]
  /\ pc' = "called"
  /\ UNCHANGED <<input_file, max_duration_seconds, ipod_mode, sink_faulty, ffmpeg_lines,
                 metadata, chapters, split_plan, part_num, parts, output_dir, temp_dir,
                 temp_created, temp_files, files, runVars, result, validation,
                 sink_raised, callbacks, delivered, last_event>>

\* C14: a line without a time field gives no sample; a line with
\* time=HH:MM:SS.ss gives a sample whose elapsed time is 3600*HH + 60*MM + SS.ss
\* seconds and whose percent is elapsed/total*100, but 100 when elapsed exceeds
\* the total, and 0 when the total is not positive.
C14_Parse ==
  Called("parse_ffmpeg_progress") =>
    LET line == call.line
        total == call.total_duration
        sample == call.result
        elapsed == (3600 * line.hms[1] + 60 * line.hms[2]) * PerSecond + line.hms[3]
    IN  /\ ~line.has_time => sample = None
        /\ (line.has_time /\ line.hms # <<>>) =>
             /\ sample # None
             /\ sample.time_seconds = elapsed
             /\ (total > 0 /\ elapsed <= total) =>
                  sample.percent.num * total = 100 * elapsed * sample.percent.den
             /\ (total > 0 /\ elapsed > total) =>
                  sample.percent.num = 100 * sample.percent.den
             /\ total <= 0 => sample.percent.num = 0

\* a line whose time is past the total: the percent was clamped
C14_Witness ==
  /\ Called("parse_ffmpeg_progress")
  /\ call.line.has_time
  /\ call.line.hms # <<>>
  /\ call.total_duration > 0
  /\ call.result.time_seconds > call.total_duration
  /\ REq(call.result.percent, Rat(100, 1))

\* ------------------------------- splitter.py lines 453-464 and 714-717
\* lines 453-464: the sample of an out_time_ms line of stdout (the value is in
\* microseconds), None when int() raises
out_time_progress(text, total_duration) ==
  IF ~text.is_int THEN None
  ELSE LET time_ms == text.value
           time_seconds == (time_ms * PerSecond) \div 1000000
       IN  [FFmpegProgress EXCEPT !.time_seconds = time_seconds,
                                  !.percent = Percent(time_seconds, total_duration)]

\* what ffmpeg prints after out_time_ms=: a count of microseconds, negative
\* while the first packets carry negative timestamps, or N/A
OutTime(is_int, value) == [is_int |-> is_int, value |-> value]

OutTimes ==
  {OutTime(FALSE, 0)}
    \cup {OutTime(TRUE, v) : v \in {-500000, 0, 500000, 30500000, 200000000}}

HandlerCalls ==
  {[op |-> "ffmpeg_progress_handler", part_num |-> kn[1], total_parts |-> kn[2],
    channel |-> "stderr", line |-> l, time_ms |-> OutTime(FALSE, 0),
    total_duration |-> d] :
     kn \in PartsOfTotal, l \in {x \in StatusLines : x.has_time /\ x.stats = <<>>},
     d \in TotalDurations}
  \cup
  {[op |-> "ffmpeg_progress_handler", part_num |-> kn[1], total_parts |-> kn[2],
    channel |-> "stdout", line |-> StatusLine(FALSE, <<>>, <<>>), time_ms |-> t,
    total_duration |-> d] :
     kn \in PartsOfTotal, t \in OutTimes, d \in TotalDurations}

\* one line of the encoder of part part_num, from its parsing to the value
\* handed to report_progress
HandlerCall ==
  /\ pc = "call"
  /\ call.op = "ffmpeg_progress_handler"
  /\ LET prog == IF call.channel = "stderr"
                 THEN parse_ffmpeg_progress(call.line, call.total_duration)
                 ELSE out_time_progress(call.time_ms, call.total_duration)
         overall == IF prog = None THEN None
                    ELSE overall_progress(call.part_num, call.total_parts, prog)
     IN  call' = [call EXCEPT !.op = "ffmpeg_progress_handler"] @@
                 [prog |-> prog, overall |-> overall]
  /\ pc' = "called"
  /\ UNCHANGED <<input_file, max_duration_seconds, ipod_mode, sink_faulty, ffmpeg_lines,
                 metadata, chapters, split_plan, part_num, parts, output_dir, temp_dir,
                 temp_created, temp_files, files, runVars, result, validation,
                 sink_raised, callbacks, delivered, last_event>>

\* C15: the overall percent is 0, 5, 10, 15 and 18 at the steps before the
\* parts, 98 at Finalizing and 100 at Complete; for a sample of part k of N with
\* part-local percent p it is base_k + (p/100)*(75/N) with
\* base_k = 20 + (k-1)*(75/N), so it lies in [base_k, base_k + 75/N] and is at
\* most 95.
C15_Overall ==
  /\ StepPercent = [validating |-> 0, metadata |-> 5, chapters |-> 10, planning |-> 15,
                    cover |-> 18, finalizing |-> 98, complete |-> 100]
  /\ (Called("ffmpeg_progress_handler") /\ call.overall # None) =>
       LET slice == Rat(75, call.total_parts)
           base_k == RAdd(Rat(20, 1), RMul(Rat(call.part_num - 1, 1), slice))
       IN  /\ REq(call.overall, RAdd(base_k, RMul(RDiv(call.prog.percent, 100), slice)))
           /\ RLeq(base_k, call.overall)
           /\ RLeq(call.overall, RAdd(base_k, slice))
           /\ RLeq(call.overall, Rat(95, 1))

\* ----------------------------------------- splitter.py: create_metadata_file
\* The text written to the sidecar is a sequence of tokens: single characters
\* ("=", ";", "#", "\\", the line break "\n") and words without any of them.
\* A tag value of None or "" is <<>>.
RECURSIVE replace(_, _, _)
replace(text, old, new) ==
  IF text = <<>> THEN <<>>
  ELSE (IF Head(text) = old THEN new ELSE <<Head(text)>>) \o replace(Tail(text), old, new)

\* lines 379-381: the escape of a pass-through tag value
escape_extra(value) ==
  replace(replace(replace(replace(value, "=", <<"\\", "=">>), ";", <<"\\", ";">>),
                  "#", <<"\\", "#">>), "\n", <<" ">>)

\* line 395: the escape of a chapter title
escape_chapter_title(title) ==
  replace(replace(replace(title, "=", <<"\\", "=">>), ";", <<"\\", ";">>),
          "#", <<"\\", "#">>)

\* models.py Chapter with its title
TitledChapter(chapter, title) ==
  [id |-> chapter.id, title |-> title, start_time |-> chapter.start_time,
   end_time |-> chapter.end_time]

\* models.py AudioMetadata: the tags create_metadata_file reads; extra_tags is
\* the dict as its sequence of <<key, value>> items
AudioMetadata(title, artist, comment, extra_tags) ==
  [title |-> title, artist |-> artist, album |-> <<>>, album_artist |-> <<>>,
   composer |-> <<>>, genre |-> <<>>, date |-> <<>>, comment |-> comment,
   extra_tags |-> extra_tags]

\* lines 357-368, 370: f.write of an optional tag
TagLine(key, value) == IF value = <<>> THEN <<>> ELSE <<key, "=">> \o value \o <<"\n">>

RECURSIVE ExtraLines(_)
ExtraLines(items) ==
  IF items = <<>> THEN <<>>
  ELSE <<Head(items)[1], "=">> \o escape_extra(Head(items)[2]) \o <<"\n">>
         \o ExtraLines(Tail(items))

\* line 348: the part's first chapter start
time_offset(chs) == IF chs # <<>> THEN chs[1].start_time ELSE 0

\* lines 385-396: the stanzas of the chapters from the i-th on; times are whole
\* seconds, so int((t - offset) * 1000) is exact
RECURSIVE ChapterStanzas(_, _, _)
ChapterStanzas(chs, i, offset) ==
  IF i > Len(chs) THEN <<>>
  ELSE LET start_ms == (chs[i].start_time - offset) * 1000
           end_ms == (chs[i].end_time - offset) * 1000
       IN  <<"\n", "[CHAPTER]", "\n", "TIMEBASE", "=", "1/1000", "\n",
             "START", "=", ToString(start_ms), "\n",
             "END", "=", ToString(end_ms), "\n", "title", "=">>
             \o escape_chapter_title(chs[i].title) \o <<"\n">>
             \o ChapterStanzas(chs, i + 1, offset)

\* the text of the file written for part part_number
create_metadata_file(meta, chs, part_number, total_parts) ==
  <<";FFMETADATA1", "\n">>
    \o <<"title", "=">> \o (IF meta.title = <<>> THEN <<"Audiobook">> ELSE meta.title)
    \o <<" - Part ", ToString(part_number), "/", ToString(total_parts), "\n">>
    \o TagLine("artist", meta.artist)
    \o TagLine("album", meta.album)
    \o TagLine("album_artist", meta.album_artist)
    \o TagLine("composer", meta.composer)
    \o TagLine("genre", meta.genre)
    \o TagLine("date", meta.date)
    \o TagLine("comment", replace(meta.comment, "\n", <<" ">>))
    \o <<"track", "=", ToString(part_number), "/", ToString(total_parts), "\n">>
    \o ExtraLines(meta.extra_tags)
    \o ChapterStanzas(chs, 1, time_offset(chs))

\* the lines of a text, as a reader of the file sees them
RECURSIVE SplitLines(_, _)
SplitLines(text, current) ==
  IF text = <<>> THEN (IF current = <<>> THEN <<>> ELSE <<current>>)
  ELSE IF Head(text) = "\n" THEN <<current>> \o SplitLines(Tail(text), <<>>)
       ELSE SplitLines(Tail(text), Append(current, Head(text)))

\* the [CHAPTER] stanzas of a file: for each header line, the two lines after
\* the TIMEBASE line that follows it
ChapterRecords(lines) ==
  LET headers == {i \in 1..Len(lines) : lines[i] = <<"[CHAPTER]">>}
      nth(j) == CHOOSE i \in headers : Cardinality({h \in headers : h <= i}) = j
      line(i) == IF i <= Len(lines) THEN lines[i] ELSE <<>>
  IN  [j \in 1..Cardinality(headers) |->
         [START |-> line(nth(j) + 2), END |-> line(nth(j) + 3)]]

\* The parts, titles and tags the calls are made with: every group of every
\* plan of a gapless chapter sequence with chapters of positive duration, its
\* first chapter titled by one of ChapterTitles.
GaplessChapterSeqs ==
  {chs \in ChapterSeqs :
     \A i \in 1..Len(chs) :
       /\ duration(chs[i]) > 0
       /\ chs[i].start_time = IF i = 1 THEN 0 ELSE chs[i - 1].end_time}

PlannedGroups ==
  UNION {{plan_splits(chs, max)[g] : g \in 1..Len(plan_splits(chs, max))} :
           chs \in GaplessChapterSeqs, max \in Ceilings}

ChapterTitles == {<<"a">>, <<"a", "=", "b">>, <<"a", "\n", "[CHAPTER]">>}

WithTitles(group, first_title) ==
  [i \in 1..Len(group) |->
     TitledChapter(group[i], IF i = 1 THEN first_title ELSE <<"c", ToString(group[i].id)>>)]

Metadatas ==
  {AudioMetadata(t, <<"A">>, c, e) :
     t \in {<<>>, <<"T">>}, c \in {<<>>, <<"c", "\n", "d">>},
     e \in {<<>>, <<<<"narrator", <<"x", "=", "y", "\n", "z">>>>>>,
            <<<<"track", <<"9">>>>>>}}

MetadataFileCalls ==
  {[op |-> "create_metadata_file", metadata |-> m, chapters |-> WithTitles(g, t),
    part_number |-> kn[1], total_parts |-> kn[2]] :
     m \in Metadatas, g \in PlannedGroups, t \in ChapterTitles, kn \in PartsOfTotal}

\* a call of create_metadata_file
MetadataFileCall ==
  /\ pc = "call"
  /\ call.op = "create_metadata_file"
  /\ call' = [call EXCEPT !.op = "create_metadata_file"] @@
             [lines |-> SplitLines(create_metadata_file(call.metadata, call.chapters,
                                     call.part_number, call.total_parts), <<>>)]
  /\ pc' = "called"
  /\ UNCHANGED <<input_file, max_duration_seconds, ipod_mode, sink_faulty, ffmpeg_lines,
                 metadata, chapters, split_plan, part_num, parts, output_dir, temp_dir,
                 temp_created, temp_files, files, runVars, result, validation,
                 sink_raised, callbacks, delivered, last_event>>

\* C16: the sidecar of a part holds exactly one [CHAPTER] record per chapter of
\* the part, in order, whose START and END are the chapter's start and end in
\* milliseconds minus the start of the part's first chapter; the first START
\* is 0, wherever the part lies in the original file.
C16_Rebased ==
  Called("create_metadata_file") =>
    LET chs == call.chapters
        records == ChapterRecords(call.lines)
        ms(t) == ToString((t - chs[1].start_time) * 1000)
    IN  /\ Len(records) = Len(chs)
        /\ \A j \in 1..Len(records) :
             /\ j <= Len(chs)
             /\ records[j].START = <<"START", "=", ms(chs[j].start_time)>>
             /\ records[j].END = <<"END", "=", ms(chs[j].end_time)>>
        /\ records # <<>> => records[1].START = <<"START", "=", "0">>

\* C23: in every [CHAPTER] record the title line is the chapter title escaped
\* by the rule of the pass-through tags ('=', ';', '#' and line breaks), so
\* the file has as many lines as it has with titles free of line breaks: a
\* title adds no line to the sidecar.
C23_TitleEscaped ==
  Called("create_metadata_file") =>
    LET chs == call.chapters
        plain == [i \in 1..Len(chs) |-> TitledChapter(chs[i], <<"a">>)]
        plain_lines == SplitLines(create_metadata_file(call.metadata, plain,
                                    call.part_number, call.total_parts), <<>>)
    IN  /\ Len(call.lines) = Len(plain_lines)
        /\ \A j \in 1..Len(chs) :
             \E n \in 1..Len(call.lines) :
               call.lines[n] = <<"title", "=">> \o escape_extra(chs[j].title)

\* C30: in the tag section of the sidecar (the lines before the first blank
\* line) every key occurs on one line only; for part i of N the title line is
\* the part-suffixed title and the track line is track=i/N.
C30_KeysOnce ==
  Called("create_metadata_file") =>
    LET lines == call.lines
        blanks == {n \in 1..Len(lines) : lines[n] = <<>>}
        last == IF blanks = {} THEN Len(lines)
                ELSE (CHOOSE n \in blanks : \A m \in blanks : n <= m) - 1
        tags == 2..last
        part == <<ToString(call.part_number), "/", ToString(call.total_parts)>>
        title == IF call.metadata.title = <<>> THEN <<"Audiobook">>
                 ELSE call.metadata.title
    IN  /\ \A n, m \in tags : lines[n][1] = lines[m][1] => n = m
        /\ \A n \in tags :
             /\ lines[n][1] = "title" =>
                  lines[n] = <<"title", "=">> \o title \o <<" - Part ">> \o part
             /\ lines[n][1] = "track" => lines[n] = <<"track", "=">> \o part

\* C24: every sample handed to the sink, parsed from a status line of stderr
\* or from an out_time_ms line of stdout, has a percent between 0 and 100 and
\* an elapsed time of at least 0.
C24_SampleRange ==
  (Called("ffmpeg_progress_handler") /\ call.prog # None) =>
    /\ RLeq(Rat(0, 1), call.prog.percent)
    /\ RLeq(call.prog.percent, Rat(100, 1))
    /\ call.prog.time_seconds >= 0

\* C28: in a session of two or more parts the output path of a part differs
\* from the output path of every other part, for every pattern, title and
\* artist.
C28_DistinctPaths ==
  (Called("output_file") /\ call.total_parts >= 2) =>
    \A other \in (1..call.total_parts) \ {call.part_num} :
      PathJoin("output_dir",
               output_filename(call.output_pattern, call.title, call.stem,
                               call.artist, other, call.total_parts))
        # call.output_file

InitCalls ==
  /\ pc = "call"
  /\ \/ call \in SanitizeCalls
     \/ call \in OutputFileCalls
     \/ call \in ParseCalls
     \/ call \in HandlerCalls
     \/ call \in MetadataFileCalls
  /\ input_file = [exists |-> TRUE, suffix_ok |-> TRUE, has_audio |-> TRUE,
                   chapters |-> <<>>]
  /\ max_duration_seconds = 1
  /\ ipod_mode = FALSE
  /\ sink_faulty = FALSE
  /\ ffmpeg_lines = 0
  /\ chapters = <<>>
  /\ Fresh
  /\ callbacks = <<>>
  /\ delivered = <<>>

NextCalls ==
  \/ SanitizeCall
  \/ OutputFileCall
  \/ ParseCall
  \/ HandlerCall
  \/ MetadataFileCall

SpecCalls == InitCalls /\ [][NextCalls]_vars
\* ------------------------------------------------ the session, continued
\* the messages of probe.py's ProbeError (lines 29-86)
ProbeErrors == {"ffprobe failed", "No chapters found in"}

\* C17: when the probe fails during metadata or chapter extraction, after the
\* validation passed, the session fails and its error message is the probe
\* error's message, unchanged and with nothing before it.
C17_ProbeVerbatim ==
  (pc = "returned" /\ validation = "valid" /\ metadata = "none" =>
     /\ ~result.success
     /\ result.error_message.detail \in ProbeErrors => result.error_message.kind = "")
  /\ (pc = "returned" /\ validation = "valid" /\ metadata = "loaded" /\ chapters = <<>> =>
        /\ ~result.success
        /\ result.error_message.detail \in ProbeErrors => result.error_message.kind = "")
\* C18: when an encode fails, by a nonzero exit code or by a missing output
\* file, the failure the session reports carries the diagnostic text of that
\* invocation: all lines the process wrote to stderr, in order.
C18_DiagnosticText ==
  (pc = "returned" /\ ~result.success /\ ~sink_raised /\ result.error_message.part > 0) =>
    LET k == result.error_message.part
    IN  proc[k].st = "exited" =>
          /\ result.error_message.kind = "Failed to create part " =>
               result.error_message.detail = proc[k].wrote
          /\ result.error_message.kind = "Output file was not created: " =>
               proc[k].wrote = <<>>
\* C19: a session that succeeds without the short circuit returns one part per
\* group of the plan, in plan order: part i has part_number i, total_parts N
\* (the number of groups) and the chapters of group i, and the chapters of all
\* parts together are the probed chapter list; a part is in the list only once
\* its encode returned success and its output file existed.
C19_Parts ==
  /\ \A i \in 1..Len(parts) :
       /\ run_result[i] = Verdict(TRUE, <<>>)
       /\ OutputFile(i) \in files
  /\ (pc = "returned" /\ result.success /\ result.error_message.kind = "") =>
       LET N == Len(split_plan)
       IN  /\ result.parts = parts
           /\ Len(result.parts) = N
           /\ \A i \in 1..Len(result.parts) :
                /\ result.parts[i].part_number = i
                /\ result.parts[i].total_parts = N
                /\ result.parts[i].chapters = split_plan[i]
           /\ Flatten([i \in 1..Len(result.parts) |-> result.parts[i].chapters])
                = input_file.chapters

C19_Witness ==
  /\ pc = "returned"
  /\ result.success
  /\ result.error_message.kind = ""
  /\ Len(result.parts) = MaxParts
  /\ Len(result.parts[1].chapters) = 1
\* ------------------------------------------- progress.py: ProgressTracker
\* The callback objects: the methods of "faulty" may raise.
MaxCallbacks == 3

Callbacks == {"first", "second", "faulty"}
FaultyCallbacks == {"faulty"}

\* what update, complete and error are called with
UpdateArgs == {[step |-> st, message |-> m] : st \in {"VALIDATING", "SPLITTING"},
                                               m \in {"m1", "m2"}}
CompleteArgs == {[success |-> ok, message |-> m] : ok \in BOOLEAN, m \in {"m1"}}
ErrorArgs == {[error |-> e] : e \in {"e1", "e2"}}

\* lines 161-163: __init__
InitTracker ==
  /\ pc = "tracker"
  /\ callbacks = <<>>
  /\ delivered = <<>>
  /\ call = NoCall
  /\ input_file = [exists |-> TRUE, suffix_ok |-> TRUE, has_audio |-> TRUE,
                   chapters |-> <<>>]
  /\ max_duration_seconds = 1
  /\ ipod_mode = FALSE
  /\ sink_faulty = FALSE
  /\ ffmpeg_lines = 0
  /\ chapters = <<>>
  /\ Fresh

sessionVars ==
  <<pc, input_file, max_duration_seconds, ipod_mode, sink_faulty, ffmpeg_lines,
    metadata, chapters, split_plan, part_num, parts, output_dir, temp_dir,
    temp_created, temp_files, files, runVars, result, validation, sink_raised,
    last_event>>

\* lines 165-167
add_callback(callback) ==
  /\ pc = "tracker"
  /\ Len(callbacks) < MaxCallbacks
  /\ callbacks' = Append(callbacks, callback)
  /\ call' = [op |-> "add_callback", arg |-> [callback |-> callback], raised |-> FALSE]
  /\ delivered' = <<>>
  /\ UNCHANGED sessionVars

\* list.remove: the first occurrence goes; ValueError when there is none
ListRemove(list, x) ==
  LET first == CHOOSE i \in 1..Len(list) : list[i] = x /\ \A j \in 1..(i - 1) : list[j] # x
  IN  SubSeq(list, 1, first - 1) \o SubSeq(list, first + 1, Len(list))

\* lines 169-171
remove_callback(callback) ==
  /\ pc = "tracker"
  /\ IF \E i \in 1..Len(callbacks) : callbacks[i] = callback
     THEN /\ callbacks' = ListRemove(callbacks, callback)
          /\ call' = [op |-> "remove_callback", arg |-> [callback |-> callback],
                      raised |-> FALSE]
     ELSE /\ UNCHANGED callbacks
          /\ call' = [op |-> "remove_callback", arg |-> [callback |-> callback],
                      raised |-> TRUE]
  /\ delivered' = <<>>
  /\ UNCHANGED sessionVars

\* the loop "for callback in self._callbacks: callback.<method>(...)": it ends
\* at the first callback that raises
Notify(op, method, arg) ==
  /\ pc = "tracker"
  /\ \E stop \in 0..Len(callbacks) :
       /\ stop # 0 => callbacks[stop] \in FaultyCallbacks
       /\ delivered' = [i \in 1..(IF stop = 0 THEN Len(callbacks) ELSE stop) |->
                          [callback |-> callbacks[i], method |-> method, arg |-> arg]]
       /\ call' = [op |-> op, arg |-> arg, raised |-> stop # 0]
  /\ UNCHANGED <<callbacks, sessionVars>>

\* lines 173-195
update(step, message) ==
  Notify("update", "on_progress", [step |-> step, message |-> message])

\* lines 197-206
complete(success, message) ==
  Notify("complete", "on_complete", [success |-> success, message |-> message])

\* lines 208-216
error(err) == Notify("error", "on_error", [error |-> err])

NextTracker ==
  \/ \E callback \in Callbacks : add_callback(callback)
  \/ \E callback \in Callbacks : remove_callback(callback)
  \/ \E a \in UpdateArgs : update(a.step, a.message)
  \/ \E a \in CompleteArgs : complete(a.success, a.message)
  \/ \E a \in ErrorArgs : error(a.error)

SpecTracker == InitTracker /\ [][NextTracker]_vars

NotifyMethod ==
  [update |-> "on_progress", complete |-> "on_complete", error |-> "on_error"]

\* C20: after any sequence of add_callback and remove_callback, a call of
\* update, complete or error invokes on_progress, on_complete or on_error once
\* for each current registration, in registration order, with the arguments
\* given, and invokes no callback that is no longer registered.
C20_Notified ==
  (pc = "tracker" /\ call.op \in {"update", "complete", "error"}) =>
    /\ Len(delivered) = Len(callbacks)
    /\ \A i \in 1..Len(delivered) :
         /\ i <= Len(callbacks)
         /\ delivered[i] = [callback |-> callbacks[i], method |-> NotifyMethod[call.op],
                            arg |-> call.arg]
====
